---- MODULE Spec2Model ----
(***************************************************************************)
(* A model of LetterPaths: the glyph normalisation of svg_utils.py and the *)
(* scripts built on it (shape.py, shape_ext.py, json_generator.py,         *)
(* dotted.py, index.py).                                                   *)
(*                                                                         *)
(* Numbers.  The scripts compute with Python floats.  The model computes   *)
(* with exact rationals <<n, d>> (d > 0, lowest terms), so a property      *)
(* stated here is the property "up to floating-point error" of the code.   *)
(* Conversions that change a value on purpose (the ":.2f", ":.3f" and      *)
(* ":.4f" formats) are modelled by the rounding they perform.              *)
(*                                                                         *)
(* Outlines.  A svgpathtools.Path is a sequence of segments; a segment is  *)
(* the sequence of its control points (bpoints): 2 points for a Line, 4    *)
(* for a CubicBezier.  A point is <<x, y>> with rational x and y.          *)
(***************************************************************************)
EXTENDS Integers, Sequences, FiniteSets, TLC

VARIABLES
    pc,        \* position of the running script
    glyph,     \* raw outline of the glyph being processed (parse_path(raw_commands))
    target,    \* target_size handed to normalize_glyph_path
    norm,      \* what normalize_glyph_path returned or raised
    renorm,    \* what a second normalize_glyph_path call on norm's path returned
    ran,       \* the batch scripts that have processed the glyph, in order
    written,   \* shapes_svg.dart: the letter's shape constant and who wrote it
    strokes,   \* assets/<letter>_PointsInfo.json: the strokes and who wrote them
    arrowArgs, \* the arguments (p0, p1, length, angle_deg) of a make_arrow call
    arrow,     \* what that make_arrow call returned
    transform, \* dotted.py, index.py: the tuple (scale, tx, ty, offset) of the main block
    pts,       \* dotted.py, index.py: the canvas points of the outline's preview
    segments,  \* dotted.py: the finalized segments, each a list of canvas points
    current,   \* dotted.py: the segment being drawn
    markers,   \* index.py: the canvas points clicked
    font,      \* index.py: the outline the font holds for each digit
    exported,  \* dotted.py, index.py: the elements 's' saved for the letter
    letter,    \* dotted.py, index.py: the character given on the command line
    dottedDart, \* the file dotted.dart
    indexDart  \* the file index_svg.dart

vars == <<pc, glyph, target, norm, renorm, ran, written, strokes, arrowArgs, arrow,
          transform, pts, segments, current, markers, font, exported,
          letter, dottedDart, indexDart>>
normVars == <<target, norm, renorm>>
batchVars == <<ran, written, strokes>>
arrowVars == <<arrowArgs, arrow>>
uiVars == <<transform, pts, segments, current, markers, font, exported>>
fileVars == <<letter, dottedDart, indexDart>>

\* the variables of the parts a specification leaves alone
NormIdle == target = <<0, 1>> /\ norm = [outcome |-> "none"] /\ renorm = [outcome |-> "none"]
BatchIdle ==
    /\ ran = <<>>
    /\ written = [by |-> "nobody", outcome |-> "none"]
    /\ strokes = [by |-> "nobody", outcome |-> "none"]
ArrowIdle == arrowArgs = <<>> /\ arrow = <<>>
UiIdle ==
    /\ transform = <<>> /\ pts = <<>> /\ segments = <<>> /\ current = <<>>
    /\ markers = <<>> /\ font = <<>> /\ exported = <<>>
\* no letter given, and neither output file exists
NoDart == [exists |-> FALSE, header |-> "", blocks |-> <<>>]
FilesIdle == letter = "" /\ dottedDart = NoDart /\ indexDart = NoDart

----------------------------------------------------------------------------
(* Bounds of the model *)

\* glyph origins (x_min, y_min) range over -1 .. MaxOrigin
MaxOrigin == 1
\* glyph widths and heights range over 0 .. MaxExtent
MaxExtent == 3

----------------------------------------------------------------------------
(* Exact rational arithmetic *)

Abs(n) == IF n < 0 THEN -n ELSE n

RECURSIVE GCD(_, _)
GCD(a, b) == IF b = 0 THEN a ELSE GCD(b, a % b)

\* n/d in lowest terms with a positive denominator (d # 0)
Frac(n, d) ==
    LET s == IF d < 0 THEN -1 ELSE 1
        g == GCD(Abs(n), Abs(d))
    IN  <<(s * n) \div g, (s * d) \div g>>

R(n) == <<n, 1>>

\* sums and comparisons go through the least common denominator, products
\* cancel across, so that no intermediate value is larger than it must be
RAdd(a, b) ==
    LET g == GCD(a[2], b[2])
    IN  Frac(a[1] * (b[2] \div g) + b[1] * (a[2] \div g), (a[2] \div g) * b[2])
RNeg(a) == <<-a[1], a[2]>>
RSub(a, b) == RAdd(a, RNeg(b))
RMul(a, b) ==
    LET g1 == GCD(Abs(a[1]), b[2])
        g2 == GCD(Abs(b[1]), a[2])
    IN  IF a[1] = 0 \/ b[1] = 0
        THEN <<0, 1>>
        ELSE <<(a[1] \div g1) * (b[1] \div g2), (a[2] \div g2) * (b[2] \div g1)>>
\* b # 0
RDiv(a, b) == RMul(a, IF b[1] < 0 THEN <<-b[2], -b[1]>> ELSE <<b[2], b[1]>>)
RLe(a, b) ==
    LET g == GCD(a[2], b[2])
    IN  a[1] * (b[2] \div g) <= b[1] * (a[2] \div g)
RLt(a, b) == a # b /\ RLe(a, b)
RMin(a, b) == IF RLe(a, b) THEN a ELSE b
RMax(a, b) == IF RLe(a, b) THEN b ELSE a
RAbs(a) == <<Abs(a[1]), a[2]>>
RZero == R(0)
ROne == R(1)
RHalf(a) == RDiv(a, R(2))

\* min() and max() of a non-empty set of rationals
RMinOf(S) == CHOOSE m \in S : \A x \in S : RLe(m, x)
RMaxOf(S) == CHOOSE m \in S : \A x \in S : RLe(x, m)

\* the value a "{:.<digits>f}" format prints, as a fraction of unit = 10^digits:
\* the nearest multiple of 1/unit, a tie going to the even one
RoundTo(a, unit) ==
    LET n     == a[1] * unit
        q     == n \div a[2]
        twice == 2 * (n - q * a[2])
        m     == IF twice < a[2] THEN q
                 ELSE IF twice > a[2] THEN q + 1
                 ELSE IF q % 2 = 0 THEN q ELSE q + 1
    IN  Frac(m, unit)

\* a point with integer coordinates
Pt(x, y) == <<R(x), R(y)>>

----------------------------------------------------------------------------
(* svgpathtools operations used by the scripts *)

\* seg.scaled(sx, sy) / path.scaled(sx, sy): about the origin
ScaledSeg(seg, sx, sy) ==
    [i \in 1..Len(seg) |-> <<RMul(seg[i][1], sx), RMul(seg[i][2], sy)>>]
Scaled(path, sx, sy) == [k \in 1..Len(path) |-> ScaledSeg(path[k], sx, sy)]

\* seg.translated(complex(dx, dy)) / path.translated(...)
TranslatedSeg(seg, dx, dy) ==
    [i \in 1..Len(seg) |-> <<RAdd(seg[i][1], dx), RAdd(seg[i][2], dy)>>]
Translated(path, dx, dy) == [k \in 1..Len(path) |-> TranslatedSeg(path[k], dx, dy)]

\* every control point of every segment: seg.bpoints() for seg in path
BPoints(path) == UNION {{path[k][i] : i \in 1..Len(path[k])} : k \in 1..Len(path)}

----------------------------------------------------------------------------
(* svg_utils.py *)

\* get_global_bbox: <<x_min, x_max, y_min, y_max>> over all control points.
\* Defined when the path has a segment; on an empty path Python's min([])
\* raises ValueError, which the callers below model.
get_global_bbox(path) ==
    LET xs == {p[1] : p \in BPoints(path)}
        ys == {p[2] : p \in BPoints(path)}
    IN  <<RMinOf(xs), RMaxOf(xs), RMinOf(ys), RMaxOf(ys)>>

\* step 2 of normalize_glyph_path: original.scaled(1, -1).translated(0, y_min + y_max)
FlipStep(original) ==
    LET bb == get_global_bbox(original)
    IN  Translated(Scaled(original, ROne, RNeg(ROne)), RZero, RAdd(bb[3], bb[4]))

\* a slip: the looser of the two fits
UniformScale_max(target_size, w, h) == RMax(RDiv(target_size, w), RDiv(target_size, h))

\* step 4: scale = min(target_size / w, target_size / h)
UniformScale(target_size, w, h) == RMin(RDiv(target_size, w), RDiv(target_size, h))

\* a slip: the outline's own minimum is not taken off
CentreOffset_nomin(f_min, dim, scale, target_size) ==
    RHalf(RSub(target_size, RMul(dim, scale)))

\* step 5: t = -f_min * scale + (target_size - dim * scale) / 2
CentreOffset(f_min, dim, scale, target_size) ==
    RAdd(RMul(RNeg(f_min), scale), RHalf(RSub(target_size, RMul(dim, scale))))

\* a slip: a flat box is given scale 1 instead of being divided by
normalize_glyph_path_guarded(original, target_size) ==
    IF BPoints(original) = {}
    THEN [outcome |-> "ValueError"]
    ELSE LET flipped == FlipStep(original)
             fb      == get_global_bbox(flipped)
             w       == RSub(fb[2], fb[1])
             h       == RSub(fb[4], fb[3])
             scale   == IF w = RZero \/ h = RZero
                        THEN ROne ELSE UniformScale(target_size, w, h)
             tx      == CentreOffset(fb[1], w, scale, target_size)
             ty      == CentreOffset(fb[3], h, scale, target_size)
         IN  [outcome |-> "ok",
              path    |-> Translated(Scaled(flipped, scale, scale), tx, ty),
              scale   |-> scale,
              tx      |-> tx,
              ty      |-> ty]

\* normalize_glyph_path(raw_commands, target_size).  The Python function either
\* returns (transformed, scale, tx, ty) or ends in an exception: ValueError
\* from min([]) when the parsed path has no segment, ZeroDivisionError from
\* target_size / w or target_size / h when the bounding box is flat.
normalize_glyph_path(original, target_size) ==
    IF BPoints(original) = {}
    THEN [outcome |-> "ValueError"]
    ELSE LET flipped == FlipStep(original)
             fb      == get_global_bbox(flipped)
             w       == RSub(fb[2], fb[1])
             h       == RSub(fb[4], fb[3])
         IN  IF w = RZero \/ h = RZero
             THEN [outcome |-> "ZeroDivisionError"]
             ELSE LET scale == UniformScale(target_size, w, h)
                      tx    == CentreOffset(fb[1], w, scale, target_size)
                      ty    == CentreOffset(fb[3], h, scale, target_size)
                  IN  [outcome |-> "ok",
                       path    |-> Translated(Scaled(flipped, scale, scale), tx, ty),
                       scale   |-> scale,
                       tx      |-> tx,
                       ty      |-> ty]

----------------------------------------------------------------------------
(* svgpathtools sampling: Path.continuous_subpaths() and Path.point(t) *)

SegStart(seg) == seg[1]
SegEnd(seg) == seg[Len(seg)]

\* path.continuous_subpaths(): the path cut wherever a segment does not start
\* where the one before it ended, the pieces in the path's order
RECURSIVE SubpathsFrom(_, _, _)
SubpathsFrom(path, start, i) ==
    IF i >= Len(path)
    THEN << SubSeq(path, start, Len(path)) >>
    ELSE IF SegEnd(path[i]) # SegStart(path[i + 1])
         THEN << SubSeq(path, start, i) >> \o SubpathsFrom(path, i + 1, i + 1)
         ELSE SubpathsFrom(path, start, i + 1)

continuous_subpaths(path) == IF path = <<>> THEN << <<>> >> ELSE SubpathsFrom(path, 1, 1)

\* seg.point(t): a Line is start + t (end - start); a CubicBezier is the
\* cubic in t, evaluated here by de Casteljau's scheme
Lerp(a, b, t) == RAdd(a, RMul(RSub(b, a), t))
LerpPt(p, q, t) == <<Lerp(p[1], q[1], t), Lerp(p[2], q[2], t)>>
SegPoint(seg, t) ==
    IF Len(seg) = 2
    THEN LerpPt(seg[1], seg[2], t)
    ELSE LET a == LerpPt(seg[1], seg[2], t)
             b == LerpPt(seg[2], seg[3], t)
             c == LerpPt(seg[3], seg[4], t)
         IN  LerpPt(LerpPt(a, b, t), LerpPt(b, c, t), t)

\* seg.length().  The outlines of this model chain only axis-parallel lines,
\* whose length is |dx| + |dy|; a path of one segment never uses the value
\* (its only fraction is length / length).
SegLength(seg) ==
    RAdd(RAbs(RSub(SegEnd(seg)[1], SegStart(seg)[1])),
         RAbs(RSub(SegEnd(seg)[2], SegStart(seg)[2])))

\* a segment of length 0: every control point at the same place
ZeroLength(path) == \A k \in 1..Len(path) : Cardinality(BPoints(<<path[k]>>)) = 1

RECURSIVE PathLength(_)
PathLength(path) ==
    IF path = <<>> THEN RZero ELSE RAdd(SegLength(Head(path)), PathLength(Tail(path)))

\* Path._calc_lengths(): each segment's share of the path's length
Fractions(path) ==
    IF Len(path) = 1
    THEN << ROne >>
    ELSE [k \in 1..Len(path) |-> RDiv(SegLength(path[k]), PathLength(path))]

\* the loop of Path.point(pos): the first segment whose end fraction reaches pos
RECURSIVE PointFrom(_, _, _, _, _)
PointFrom(path, fr, k, segment_start, pos) ==
    LET segment_end == RAdd(segment_start, fr[k])
    IN  IF RLe(pos, segment_end)
        THEN SegPoint(path[k], RDiv(RSub(pos, segment_start), RSub(segment_end, segment_start)))
        ELSE PointFrom(path, fr, k + 1, segment_end, pos)

\* Path.point(pos), 0 <= pos <= 1, of a path of non-zero length
PathPoint(path, pos) ==
    IF pos = RZero THEN SegPoint(path[1], RZero)
    ELSE IF pos = ROne THEN SegPoint(path[Len(path)], ROne)
    ELSE PointFrom(path, Fractions(path), 1, RZero, pos)

----------------------------------------------------------------------------
(* Glyph outlines the font may hold *)

\* the outline kinds, each drawn inside the box [x0, x0+w] x [y0, y0+h]
Outline(kind, x0, y0, w, h) ==
    CASE kind = "line"  -> << <<Pt(x0, y0), Pt(x0 + w, y0 + h)>> >>
      [] kind = "ell"   -> << <<Pt(x0, y0 + h), Pt(x0, y0)>>,
                              <<Pt(x0, y0), Pt(x0 + w, y0)>> >>
      [] kind = "curve" -> << <<Pt(x0, y0), Pt(x0, y0 + h),
                                Pt(x0 + w, y0 + h), Pt(x0 + w, y0)>> >>
      [] kind = "two"   -> << <<Pt(x0, y0), Pt(x0, y0 + h)>>,
                              <<Pt(x0 + w, y0 + h), Pt(x0 + w, y0)>> >>

Kinds == {"line", "ell", "curve", "two"}
Origins == (-1)..MaxOrigin
Extents == 0..MaxExtent

\* the empty path (an empty command string, or a lone "M x,y") and every
\* outline of every kind, flat boxes included
Glyphs ==
    {<<>>} \cup {Outline(k, x0, y0, w, h) :
                   k \in Kinds, x0 \in Origins, y0 \in Origins,
                   w \in Extents, h \in Extents}

\* target sizes the scripts use: the canvas less its margins (dotted.py,
\* index.py), SCALE (json_generator.py), and a marker-sized square (index.py)
CANVAS_SIZE == 600
SCALE == 600
Targets == {R(CANVAS_SIZE - 40), R(SCALE), Frac(72, 5)}

None == [outcome |-> "none"]

----------------------------------------------------------------------------
(* shape.py: the body of main's loop, for one letter *)

\* step 3.3: scale_factor = min(SCALE / width, SCALE / height)
shape_scale_factor(width, height) == RMin(RDiv(R(SCALE), width), RDiv(R(SCALE), height))

\* step 3.4: t = (SCALE - dim * scale_factor) / 2 - min * scale_factor
shape_offset(min, dim, scale_factor) ==
    RSub(RHalf(RSub(R(SCALE), RMul(dim, scale_factor))), RMul(min, scale_factor))

\* steps 3.2 to 3.6 for the parsed commands path_obj of a glyph: the path
\* whose "d" is written, or the exception the step ends in
shape_letter(path_obj) ==
    IF path_obj = <<>>
    THEN [outcome |-> "skipped"]
    ELSE LET bb     == get_global_bbox(path_obj)
             min_x  == bb[1]
             min_y  == bb[3]
             width  == RSub(bb[2], bb[1])
             height == RSub(bb[4], bb[3])
         IN  IF width = RZero \/ height = RZero
             THEN [outcome |-> "ZeroDivisionError"]
             ELSE LET scale_factor == shape_scale_factor(width, height)
                      tx == shape_offset(min_x, width, scale_factor)
                      ty == shape_offset(min_y, height, scale_factor)
                      transformed ==
                          Translated(Scaled(path_obj, scale_factor, scale_factor),
                                     RAdd(RMul(RNeg(min_x), scale_factor), tx),
                                     RAdd(RMul(RNeg(min_y), scale_factor), ty))
                      flipped ==
                          Translated(Scaled(transformed, ROne, RNeg(ROne)), RZero, R(SCALE))
                  IN  [outcome |-> "ok", path |-> flipped]

----------------------------------------------------------------------------
(* json_generator.py and shape_ext.py: the strokes of one letter *)

POINTS_PER_STROKE == 12
ExtSCALE == 100

\* a slip: the step is 1 / POINTS_PER_STROKE, so t never reaches 1
SampleT_overN(k) == Frac(k, POINTS_PER_STROKE)

\* t = k / (POINTS_PER_STROKE - 1)
SampleT(k) == Frac(k, POINTS_PER_STROKE - 1)

\* json_generator.py, step 3.3: a sampled point as "x_norm,y_norm" with
\* x_norm = p.real / SCALE and y_norm = 1 - p.imag / SCALE, 4 decimals each
json_point(p) ==
    <<RoundTo(RDiv(p[1], R(SCALE)), 10000),
      RoundTo(RSub(ROne, RDiv(p[2], R(SCALE))), 10000)>>

\* shape_ext.py: a sampled point as "x/SCALE,y/SCALE", 4 decimals each
ext_point(p) ==
    <<RoundTo(RDiv(p[1], R(ExtSCALE)), 10000),
      RoundTo(RDiv(p[2], R(ExtSCALE)), 10000)>>

\* json_generator.py, step 3.3: one stroke per continuous subpath, in order,
\* each of POINTS_PER_STROKE samples for k = 0 .. POINTS_PER_STROKE - 1
json_strokes(normalized_path) ==
    LET subs == continuous_subpaths(normalized_path)
    IN  [i \in 1..Len(subs) |->
            [k \in 1..POINTS_PER_STROKE |-> json_point(PathPoint(subs[i], SampleT(k - 1)))]]

\* shape_ext.py: the same loop over the flipped, unscaled outline
ext_strokes(path) ==
    LET subs == continuous_subpaths(path)
    IN  [i \in 1..Len(subs) |->
            [k \in 1..POINTS_PER_STROKE |-> ext_point(PathPoint(subs[i], SampleT(k - 1)))]]

\* Path.point divides by the subpath's length: a subpath whose segments all
\* have length 0 ends the script in ZeroDivisionError
SomeSubpathHasNoLength(path) ==
    \E i \in 1..Len(continuous_subpaths(path)) : ZeroLength(continuous_subpaths(path)[i])

NoFile == [by |-> "nobody", outcome |-> "none"]
Scripts == {"shape.py", "json_generator.py", "shape_ext.py"}
HasRun(script) == \E i \in 1..Len(ran) : ran[i].script = script

InitBatch ==
    /\ pc = "batch"
    /\ glyph \in Glyphs
    /\ target = R(SCALE)
    /\ norm = None
    /\ renorm = None
    /\ ran = <<>>
    /\ written = NoFile
    /\ strokes = NoFile
    /\ ArrowIdle
    /\ UiIdle
    /\ FilesIdle

\* python shape.py: shapes_svg.dart is opened for writing, so what it held is
\* gone whatever happens to the letter
RunShape ==
    /\ pc = "batch"
    /\ ~HasRun("shape.py")
    /\ LET res == shape_letter(glyph)
       IN  /\ written' = [by |-> "shape.py"] @@ res
           /\ ran' = Append(ran, [script |-> "shape.py", outcome |-> res.outcome])
    /\ UNCHANGED <<fileVars, pc, glyph, target, norm, renorm, strokes, arrowVars, uiVars>>

\* python json_generator.py: the letter's JSON file is written only when the
\* normalisation and the sampling went through
RunJsonGenerator ==
    /\ pc = "batch"
    /\ ~HasRun("json_generator.py")
    /\ norm' = normalize_glyph_path(glyph, R(SCALE))
    /\ strokes' = IF norm'.outcome = "ok"
                  THEN [by |-> "json_generator.py", outcome |-> "ok",
                        strokes |-> json_strokes(norm'.path)]
                  ELSE strokes
    /\ ran' = Append(ran, [script |-> "json_generator.py", outcome |-> norm'.outcome])
    /\ UNCHANGED <<fileVars, pc, glyph, target, renorm, written, arrowVars, uiVars>>

\* python shape_ext.py: shapes_svg.dart is opened for writing first; the
\* letter's flipped outline is written to it, then its strokes to the JSON file
RunShapeExt ==
    /\ pc = "batch"
    /\ ~HasRun("shape_ext.py")
    /\ LET outcome == IF BPoints(glyph) = {} THEN "ValueError"
                      ELSE IF SomeSubpathHasNoLength(FlipStep(glyph))
                           THEN "ZeroDivisionError" ELSE "ok"
       IN  /\ written' = IF outcome = "ValueError"
                         THEN [by |-> "shape_ext.py", outcome |-> outcome]
                         ELSE [by |-> "shape_ext.py", outcome |-> "ok",
                               path |-> FlipStep(glyph)]
           /\ strokes' = IF outcome = "ok"
                         THEN [by |-> "shape_ext.py", outcome |-> "ok",
                               strokes |-> ext_strokes(FlipStep(glyph))]
                         ELSE strokes
           /\ ran' = Append(ran, [script |-> "shape_ext.py", outcome |-> outcome])
    /\ UNCHANGED <<fileVars, pc, glyph, target, norm, renorm, arrowVars, uiVars>>

NextBatch == RunShape \/ RunJsonGenerator \/ RunShapeExt

SpecBatch == InitBatch /\ [][NextBatch]_vars

----------------------------------------------------------------------------
(* dotted.py: make_arrow *)

\* An angle is held as the pair <<cos, sin>>.  math.radians(angle_deg) for the
\* two angles the script uses (the default 30 and the 25 of build_trace_paths)
\* is the rational rotation nearest to it: 25.06 and 30.51 degrees.
Radians(angle_deg) ==
    CASE angle_deg = 25 -> <<Frac(77, 85), Frac(36, 85)>>
      [] angle_deg = 30 -> <<Frac(56, 65), Frac(33, 65)>>

\* the square root of a rational that is a square
ISqrt(n) == CHOOSE k \in 0..n : k * k = n
RSqrt(a) == Frac(ISqrt(a[1]), ISqrt(a[2]))

\* math.atan2(dy, dx), as <<cos, sin>>; atan2(0, 0) is 0.  Exact when the
\* length of (dx, dy) is rational.
Atan2(dy, dx) ==
    IF dx = RZero /\ dy = RZero
    THEN <<ROne, RZero>>
    ELSE LET len == RSqrt(RAdd(RMul(dx, dx), RMul(dy, dy)))
         IN  <<RDiv(dx, len), RDiv(dy, len)>>

\* math.cos and math.sin of a difference and of a sum of two angles
CosDiff(a, b) == RAdd(RMul(a[1], b[1]), RMul(a[2], b[2]))
SinDiff(a, b) == RSub(RMul(a[2], b[1]), RMul(a[1], b[2]))
CosSum(a, b) == RSub(RMul(a[1], b[1]), RMul(a[2], b[2]))
SinSum(a, b) == RAdd(RMul(a[2], b[1]), RMul(a[1], b[2]))

\* a slip: the second wing is turned the same way as the first
arrow_bases_same_side(p0, p1, length, angle_deg) ==
    LET theta == Atan2(RSub(p1[2], p0[2]), RSub(p1[1], p0[1]))
        alpha == Radians(angle_deg)
        lx == RSub(p1[1], RMul(length, CosDiff(theta, alpha)))
        ly == RSub(p1[2], RMul(length, SinDiff(theta, alpha)))
    IN  << <<lx, ly>>, <<lx, ly>> >>

\* make_arrow, up to the base points: <<(lx, ly), (rx, ry)>>
arrow_bases(p0, p1, length, angle_deg) ==
    LET theta == Atan2(RSub(p1[2], p0[2]), RSub(p1[1], p0[1]))
        alpha == Radians(angle_deg)
        lx == RSub(p1[1], RMul(length, CosDiff(theta, alpha)))
        ly == RSub(p1[2], RMul(length, SinDiff(theta, alpha)))
        rx == RSub(p1[1], RMul(length, CosSum(theta, alpha)))
        ry == RSub(p1[2], RMul(length, SinSum(theta, alpha)))
    IN  << <<lx, ly>>, <<rx, ry>> >>

\* a point as "{x:.2f},{y:.2f}"
Fmt2(p) == <<RoundTo(p[1], 100), RoundTo(p[2], 100)>>

\* make_arrow: the two subpaths "M base L p1", each a pair <<base, end>> of
\* points as printed
make_arrow(p0, p1, length, angle_deg) ==
    LET b == arrow_bases(p0, p1, length, angle_deg)
    IN  << <<Fmt2(b[1]), Fmt2(p1)>>, <<Fmt2(b[2]), Fmt2(p1)>> >>

\* the arguments tried: end points on a grid of thirds and sevenths and the
\* point (10, 0); p0 ten units back from p1 along a direction of rational
\* length, or p0 = p1; three lengths; both angles
ArrowEnds == {<<Frac(i, 3), Frac(j, 7)>> : i, j \in 0..MaxExtent} \cup {Pt(10, 0)}
ArrowDirs == {<<1, 0>>, <<-1, 0>>, <<0, 1>>, <<0, -1>>,
              <<3, 4>>, <<-4, 3>>, <<4, -3>>, <<-3, -4>>, <<0, 0>>}
ArrowLengths == {R(5), Frac(1, 3), Frac(48, 25)}
ArrowArgs ==
    {[p0 |-> <<RSub(p1[1], R(10 * d[1])), RSub(p1[2], R(10 * d[2]))>>,
      p1 |-> p1, length |-> len, angle_deg |-> a] :
        p1 \in ArrowEnds, d \in ArrowDirs, len \in ArrowLengths, a \in {25, 30}}

InitArrow ==
    /\ pc = "start"
    /\ arrowArgs \in ArrowArgs
    /\ arrow = <<>>
    /\ glyph = <<>>
    /\ NormIdle
    /\ BatchIdle
    /\ UiIdle
    /\ FilesIdle

MakeArrow ==
    /\ pc = "start"
    /\ arrow' = make_arrow(arrowArgs.p0, arrowArgs.p1, arrowArgs.length, arrowArgs.angle_deg)
    /\ pc' = "returned"
    /\ UNCHANGED <<fileVars, glyph, normVars, batchVars, arrowArgs, uiVars>>

NextArrow == MakeArrow

SpecArrow == InitArrow /\ [][NextArrow]_vars

----------------------------------------------------------------------------
(* dotted.py and index.py: the main block *)

MAX_SEGMENTS == 5
MAX_MARKERS == 5
MARKER_RADIUS == 12

\* the preview samples each subpath at i / 300, i = 0 .. 300; the model
\* samples at i / PreviewSteps, i = 0 .. PreviewSteps
PreviewSteps == 4
\* the user has at most MaxClicks points on the canvas of dotted.py at a time
MaxClicks == 4
\* ... and at most MaxPoints when every click is on the same pixel
MaxPoints == 10

\* the letters the tools are started on: outlines at the origin and away
\* from it, and a glyph without outline
UiGlyphs ==
    {<<>>} \cup {Outline(k, o[1], o[2], w, h) :
                   k \in Kinds, o \in {<<0, 0>>, <<-1, 1>>},
                   w \in 1..MaxExtent, h \in 1..MaxExtent}

\* where the user clicks: two canvas pixels, a 3-4-5 step apart
Clicks == {Pt(20, 20), Pt(320, 420)}

\* offset = 20; transform = (scale, tx + offset, ty + offset, offset)
main_transform(n) == <<n.scale, RAdd(n.tx, R(20)), RAdd(n.ty, R(20)), R(20)>>

\* the preview: every subpath of the normalized path sampled and moved by offset
RECURSIVE preview_from(_, _)
preview_from(subs, j) ==
    IF j > Len(subs) THEN <<>>
    ELSE [i \in 1..(PreviewSteps + 1) |->
            LET p == PathPoint(subs[j], Frac(i - 1, PreviewSteps))
            IN  <<RAdd(p[1], R(20)), RAdd(p[2], R(20))>>]
         \o preview_from(subs, j + 1)
preview_points(normalized_path) == preview_from(continuous_subpaths(normalized_path), 1)

\* build_trace_paths / build_marker_paths: a canvas point taken to "glyph
\* space" with the transform tuple, ((x - offset - tx) / scale, (y - offset - ty) / scale)
canvas_to_glyph(c, tr) ==
    <<RDiv(RSub(RSub(c[1], tr[4]), tr[2]), tr[1]),
      RDiv(RSub(RSub(c[2], tr[4]), tr[3]), tr[1])>>

\* the main block of both tools, from the glyph to the Tk main loop
Main ==
    /\ pc = "start"
    /\ target' = R(CANVAS_SIZE - 40)
    /\ norm' = normalize_glyph_path(glyph, target')
    /\ IF norm'.outcome = "ok"
       THEN /\ transform' = main_transform(norm')
            /\ pts' = preview_points(norm'.path)
            /\ pc' = "ui"
       ELSE /\ pc' = "raised"
            /\ UNCHANGED <<transform, pts>>
    /\ UNCHANGED <<fileVars, glyph, renorm, batchVars, arrowVars,
                   segments, current, markers, font, exported>>

----------------------------------------------------------------------------
(* dotted.py: append_trace_to_dart; index.py: append_to_dart *)

\* A file is held as its header line and its blocks in order, a block as the
\* name of its constant, <<prefix, letter>>, and its body, the list of elements.

\* the characters the tools are started on: two letters and two characters
\* that mean something in a regular expression
Letters == {"A", "B", ".", "+"}

\* the element lists saved: none, or one element
Bodies == {<<>>, <<"M 0.00,0.00 L 1.00,1.00">>}

\* re.sub(rf"static const {const_name} = '''.*?''';\s*", "", existing): the
\* letter is put in the pattern as it is.  "." stands for any character, and
\* "r+" for one or more "r", so the pattern of "+" matches no block at all.
pattern_matches(const_name, name) ==
    /\ name[1] = const_name[1]
    /\ CASE const_name[2] = "." -> TRUE
         [] const_name[2] = "+" -> FALSE
         [] OTHER -> name[2] = const_name[2]

\* the body of both functions: header + existing + block is written
append_block(prefix, header, l, all_elements, file) ==
    LET const_name == <<prefix, l>>
        block == [name |-> const_name, body |-> all_elements]
        existing == SelectSeq(file.blocks, LAMBDA b : ~pattern_matches(const_name, b.name))
    IN  [exists |-> TRUE,
         header |-> IF file.exists THEN file.header ELSE header,
         blocks |-> Append(existing, block)]

\* a slip: nothing is written when there is nothing to save
append_trace_to_dart_unless_empty(l, all_elements, file) ==
    IF all_elements = <<>> THEN file
    ELSE append_block("dottedLetter", "// Gerado por dotted.py", l, all_elements, file)

append_trace_to_dart(l, all_elements, file) ==
    append_block("dottedLetter", "// Gerado por dotted.py", l, all_elements, file)

append_to_dart(l, elements, file) ==
    append_block("indexLetter", "// Gerado por index.py", l, elements, file)

\* the blocks of a file with a given constant name
BlocksNamed(file, name) == SelectSeq(file.blocks, LAMBDA b : b.name = name)

\* what the output file holds when a tool is started: nothing, or what
\* earlier sessions saved for two letters
OldFiles(prefix, header) ==
    {NoDart,
     [exists |-> TRUE, header |-> header,
      blocks |-> << [name |-> <<prefix, "A">>, body |-> <<"M 0.00,0.00 L 1.00,1.00">>],
                    [name |-> <<prefix, "B">>, body |-> <<>>] >>]}

\* the letters the interactive tools are started on
UiLetters == {"A"}

\* the two files hold at most MaxBlocks blocks together
MaxBlocks == 3

\* calls of the two functions one after the other, as sessions of the tools
\* on different characters make them
InitSave ==
    /\ pc = "shell"
    /\ glyph = <<>>
    /\ NormIdle
    /\ BatchIdle
    /\ ArrowIdle
    /\ UiIdle
    /\ FilesIdle

\* append_trace_to_dart(letter, all_elements)
SaveTrace ==
    /\ pc = "shell"
    /\ Len(dottedDart.blocks) + Len(indexDart.blocks) < MaxBlocks
    /\ \E l \in Letters, all_elements \in Bodies :
         /\ letter' = l
         /\ exported' = all_elements
         /\ dottedDart' = append_trace_to_dart(l, all_elements, dottedDart)
    /\ UNCHANGED <<pc, glyph, normVars, batchVars, arrowVars, indexDart,
                   transform, pts, segments, current, markers, font>>

\* append_to_dart(letter, elements)
SaveIndex ==
    /\ pc = "shell"
    /\ Len(dottedDart.blocks) + Len(indexDart.blocks) < MaxBlocks
    /\ \E l \in Letters, elements \in Bodies :
         /\ letter' = l
         /\ exported' = elements
         /\ indexDart' = append_to_dart(l, elements, indexDart)
    /\ UNCHANGED <<pc, glyph, normVars, batchVars, arrowVars, dottedDart,
                   transform, pts, segments, current, markers, font>>

NextSave == SaveTrace \/ SaveIndex

SpecSave == InitSave /\ [][NextSave]_vars

----------------------------------------------------------------------------
(* dotted.py: the event handlers *)

\* on_click and on_key as functions of (segments, current)

\* "if len(segments) < MAX_SEGMENTS", "if len(markers) < MAX_MARKERS"
click_accepted_at_max(n, max) == n <= max

click_accepted(n, max) == n < max

on_click(segs, cur, evt) ==
    IF click_accepted(Len(segs), MAX_SEGMENTS)
    THEN <<segs, Append(cur, evt)>>
    ELSE <<segs, cur>>

\* a slip: "u" takes the last segment back into current
on_key_u_reopen(segs, cur) ==
    IF cur # <<>> THEN <<segs, SubSeq(cur, 1, Len(cur) - 1)>>
    ELSE IF segs # <<>> THEN <<SubSeq(segs, 1, Len(segs) - 1), segs[Len(segs)]>>
    ELSE <<segs, cur>>

on_key_u(segs, cur) ==
    IF cur # <<>> THEN <<segs, SubSeq(cur, 1, Len(cur) - 1)>>
    ELSE IF segs # <<>> THEN <<SubSeq(segs, 1, Len(segs) - 1), cur>>
    ELSE <<segs, cur>>

\* a slip: "t" finalizes a segment of a single point
on_key_t_one_point(segs, cur) ==
    IF Len(cur) >= 1 /\ Len(segs) < MAX_SEGMENTS
    THEN <<Append(segs, cur), <<>>>>
    ELSE <<segs, cur>>

on_key_t(segs, cur) ==
    IF Len(cur) >= 2 /\ Len(segs) < MAX_SEGMENTS
    THEN <<Append(segs, cur), <<>>>>
    ELSE <<segs, cur>>

\* build_trace_paths: the elements of one finalized segment, each the list of
\* its points as printed -- the polyline, then the two arrow wings
build_trace_paths(segment, tr) ==
    LET pts_font == [i \in 1..Len(segment) |-> canvas_to_glyph(segment[i], tr)]
        n == Len(pts_font)
        length_font == RMul(RDiv(R(MARKER_RADIUS), tr[1]), Frac(4, 5))
    IN  IF n >= 2
        THEN << [i \in 1..n |-> Fmt2(pts_font[i])] >>
             \o make_arrow(pts_font[n - 1], pts_font[n], length_font, 25)
        ELSE <<>>

RECURSIVE all_elems(_, _)
all_elems(segs, tr) ==
    IF segs = <<>> THEN <<>>
    ELSE build_trace_paths(Head(segs), tr) \o all_elems(Tail(segs), tr)

RECURSIVE CountPoints(_)
CountPoints(segs) == IF segs = <<>> THEN 0 ELSE Len(Head(segs)) + CountPoints(Tail(segs))

InitDotted ==
    /\ pc = "start"
    /\ glyph \in UiGlyphs
    /\ NormIdle
    /\ BatchIdle
    /\ ArrowIdle
    /\ UiIdle
    /\ letter \in UiLetters
    /\ dottedDart \in OldFiles("dottedLetter", "// Gerado por dotted.py")
    /\ indexDart = NoDart

\* on_click, for a click on one of the pixels of where, while fewer than
\* most points are on the canvas
ClickOn(where, most) ==
    /\ pc = "ui"
    /\ Len(segments) < MAX_SEGMENTS => CountPoints(segments) + Len(current) < most
    /\ \E evt \in where :
         LET after == on_click(segments, current, evt)
         IN  segments' = after[1] /\ current' = after[2]
    /\ UNCHANGED <<fileVars, pc, glyph, normVars, batchVars, arrowVars,
                   transform, pts, markers, font, exported>>

OnClick == ClickOn(Clicks, MaxClicks)

\* on_key, evt.char == "u"
OnKeyU ==
    /\ pc = "ui"
    /\ LET after == on_key_u(segments, current)
       IN  segments' = after[1] /\ current' = after[2]
    /\ UNCHANGED <<fileVars, pc, glyph, normVars, batchVars, arrowVars,
                   transform, pts, markers, font, exported>>

\* on_key, evt.char == "t"
OnKeyT ==
    /\ pc = "ui"
    /\ LET after == on_key_t(segments, current)
       IN  segments' = after[1] /\ current' = after[2]
    /\ UNCHANGED <<fileVars, pc, glyph, normVars, batchVars, arrowVars,
                   transform, pts, markers, font, exported>>

\* on_key, evt.char == "s": the elements of every finalized segment are
\* saved as the letter's block and the window is closed
OnKeyS ==
    /\ pc = "ui"
    /\ exported' = all_elems(segments, transform)
    /\ dottedDart' = append_trace_to_dart(letter, exported', dottedDart)
    /\ pc' = "saved"
    /\ UNCHANGED <<letter, indexDart, glyph, normVars, batchVars, arrowVars,
                   transform, pts, segments, current, markers, font>>

NextDotted == Main \/ OnClick \/ OnKeyU \/ OnKeyT \/ OnKeyS

SpecDotted == InitDotted /\ [][NextDotted]_vars

----------------------------------------------------------------------------
(* index.py: build_marker_paths and the event handlers *)

\* the font's cmap has no entry for the digit
NoGlyph == [inCmap |-> FALSE, outline |-> <<>>]

HasGlyph(outline) == [inCmap |-> TRUE, outline |-> outline]

\* the outlines a font may hold for the digits 1 .. MAX_MARKERS: of every
\* kind, of different sizes, at different places
DigitOutline(k) ==
    Outline(CASE k % 4 = 1 -> "line" [] k % 4 = 2 -> "ell"
              [] k % 4 = 3 -> "curve" [] OTHER -> "two",
            k - 3, 2 - k, 1 + (k % 3), 1 + ((2 * k) % 3))

\* a complete font, a font without the digit 3, a font whose 2 is a flat stroke
Fonts ==
    {[k \in 1..MAX_MARKERS |-> HasGlyph(DigitOutline(k))],
     [k \in 1..MAX_MARKERS |-> IF k = 3 THEN NoGlyph ELSE HasGlyph(DigitOutline(k))],
     [k \in 1..MAX_MARKERS |-> HasGlyph(IF k = 2 THEN Outline("line", 0, 0, 0, 2)
                                                 ELSE DigitOutline(k))]}

\* a number as "{:.3f}"
Fmt3(a) == RoundTo(a, 1000)

\* step 2: r_font = MARKER_RADIUS / scale
r_font(tr) == RDiv(R(MARKER_RADIUS), tr[1])

\* step 4.2: target_size = 2 * r_font * DIGIT_INSIDE_SCALE (0.6)
digit_target_size(tr) == RMul(RMul(R(2), r_font(tr)), Frac(3, 5))

\* a slip: the digit's corner, not its centre, is put on the marker
digit_shift_corner(c0, target_size) == c0

\* step 4.3: dx = x0 - target_size / 2, dy = y0 - target_size / 2
digit_shift(c0, target_size) == RSub(c0, RHalf(target_size))

\* step 3: the circle "M x0+r,y0 A r,r 0 1,0 x0-r,y0 A r,r 0 1,0 x0+r,y0 Z",
\* held as the numbers printed: x0 + r, y0, r, x0 - r
circle_elem(p, r) ==
    [kind |-> "circle", right |-> Fmt3(RAdd(p[1], r)), y |-> Fmt3(p[2]),
     r |-> Fmt3(r), left |-> Fmt3(RSub(p[1], r))]

\* steps 4.1 to 4.4: the digit's outline normalized on its own and moved
digit_elem(outline, p, tr) ==
    LET target_size == digit_target_size(tr)
        d == normalize_glyph_path(outline, target_size)
    IN  [kind |-> "digit",
         path |-> Translated(d.path, digit_shift(p[1], target_size),
                                     digit_shift(p[2], target_size))]

\* a slip: the digits are counted from 0
digit_glyph_from_zero(f, idx) == f[IF idx = 1 THEN MAX_MARKERS ELSE idx - 1]

\* step 4: digit = str(idx), and the glyph the font's cmap has for it
digit_glyph(f, idx) == f[idx]

\* the loop of build_marker_paths from marker idx on
RECURSIVE marker_elems(_, _, _, _)
marker_elems(ms, tr, f, idx) ==
    IF idx > Len(ms) THEN <<>>
    ELSE LET p == canvas_to_glyph(ms[idx], tr)
         IN  << circle_elem(p, r_font(tr)) >>
             \o (IF ~digit_glyph(f, idx).inCmap THEN <<>>
                 ELSE << digit_elem(digit_glyph(f, idx).outline, p, tr) >>)
             \o marker_elems(ms, tr, f, idx + 1)

build_marker_paths(ms, tr, f) == marker_elems(ms, tr, f, 1)

\* normalize_glyph_path raises on one of the digits build_marker_paths needs
DigitRaises(ms, tr, f) ==
    \E idx \in 1..Len(ms) :
        /\ digit_glyph(f, idx).inCmap
        /\ normalize_glyph_path(digit_glyph(f, idx).outline, digit_target_size(tr)).outcome # "ok"

InitIndex ==
    /\ pc = "start"
    /\ glyph \in UiGlyphs
    /\ font \in Fonts
    /\ NormIdle
    /\ BatchIdle
    /\ ArrowIdle
    /\ transform = <<>> /\ pts = <<>> /\ segments = <<>> /\ current = <<>>
    /\ markers = <<>> /\ exported = <<>>
    /\ letter \in UiLetters
    /\ dottedDart = NoDart
    /\ indexDart = NoDart

\* on_click and on_key as functions of markers
index_on_click(ms, evt) ==
    IF click_accepted(Len(ms), MAX_MARKERS) THEN Append(ms, evt) ELSE ms

index_on_key_u(ms) == IF ms # <<>> THEN SubSeq(ms, 1, Len(ms) - 1) ELSE ms

\* on_click
IndexOnClick ==
    /\ pc = "ui"
    /\ \E evt \in Clicks : markers' = index_on_click(markers, evt)
    /\ UNCHANGED <<fileVars, pc, glyph, normVars, batchVars, arrowVars,
                   transform, pts, segments, current, font, exported>>

\* on_key, evt.char == "u"
IndexOnKeyU ==
    /\ pc = "ui"
    /\ markers' = index_on_key_u(markers)
    /\ UNCHANGED <<fileVars, pc, glyph, normVars, batchVars, arrowVars,
                   transform, pts, segments, current, font, exported>>

\* on_key, evt.char == "s": the elements are built and saved and the window
\* is closed; an exception in build_marker_paths leaves the tool as it was
IndexOnKeyS ==
    /\ pc = "ui"
    /\ IF DigitRaises(markers, transform, font)
       THEN UNCHANGED <<pc, exported, indexDart>>
       ELSE /\ exported' = build_marker_paths(markers, transform, font)
            /\ indexDart' = append_to_dart(letter, exported', indexDart)
            /\ pc' = "saved"
    /\ UNCHANGED <<letter, dottedDart, glyph, normVars, batchVars, arrowVars,
                   transform, pts, segments, current, markers, font>>

NextIndex == Main \/ IndexOnClick \/ IndexOnKeyU \/ IndexOnKeyS

SpecIndex == InitIndex /\ [][NextIndex]_vars

----------------------------------------------------------------------------
(* Both tools filled to their maximum: click, "u" and "t" *)

\* two of the letters' outlines
FewGlyphs == {Outline("ell", 0, 0, 1, 2), Outline("curve", -1, 1, 3, 1)}

\* a session of dotted.py (no digit font is held) or of index.py
InitLimits ==
    /\ glyph \in FewGlyphs
    /\ \/ InitDotted
       \/ InitIndex

\* every click of the dotted.py session falls on the same pixel
OnClickSame == ClickOn({Pt(320, 420)}, MaxPoints)

NextLimits ==
    \/ Main
    \/ font = <<>> /\ OnClickSame
    \/ font = <<>> /\ OnKeyU
    \/ font = <<>> /\ OnKeyT
    \/ font # <<>> /\ IndexOnClick
    \/ font # <<>> /\ IndexOnKeyU

SpecLimits == InitLimits /\ [][NextLimits]_vars

----------------------------------------------------------------------------
(* Normalising a glyph, and normalising the result again *)

Init ==
    /\ pc = "start"
    /\ glyph \in Glyphs
    /\ target \in Targets
    /\ norm = None
    /\ renorm = None
    /\ BatchIdle
    /\ ArrowIdle
    /\ UiIdle
    /\ FilesIdle

Normalize ==
    /\ pc = "start"
    /\ norm' = normalize_glyph_path(glyph, target)
    /\ pc' = IF norm'.outcome = "ok" THEN "normalized" ELSE "raised"
    /\ UNCHANGED <<fileVars, glyph, target, renorm, batchVars, arrowVars, uiVars>>

\* the path data of the normalized outline (Path.d() prints every float in
\* full, so parse_path gives back the same control points) normalized again
Renormalize ==
    /\ pc = "normalized"
    /\ renorm' = normalize_glyph_path(norm.path, target)
    /\ pc' = "renormalized"
    /\ UNCHANGED <<fileVars, glyph, target, norm, batchVars, arrowVars, uiVars>>

Next == Normalize \/ Renormalize

Spec == Init /\ [][Next]_vars

----------------------------------------------------------------------------
(* Claims about normalize_glyph_path, checked under Spec *)

Width(bb) == RSub(bb[2], bb[1])
Height(bb) == RSub(bb[4], bb[3])
CentreX(bb) == RHalf(RAdd(bb[1], bb[2]))
CentreY(bb) == RHalf(RAdd(bb[3], bb[4]))
\* the outline has a segment and its control-point box is not flat
NonFlat(path) ==
    /\ BPoints(path) # {}
    /\ Width(get_global_bbox(path)) # RZero
    /\ Height(get_global_bbox(path)) # RZero
\* every control point lies in [0, size] x [0, size]
InsideSquare(path, size) ==
    \A p \in BPoints(path) :
        RLe(RZero, p[1]) /\ RLe(p[1], size) /\ RLe(RZero, p[2]) /\ RLe(p[2], size)

\* C1: for an outline whose control-point box has non-zero width and height,
\* normalize_glyph_path returns a path whose box has its larger dimension
\* equal to target_size and its centre at (target_size/2, target_size/2), so
\* the whole outline lies inside [0, target_size] x [0, target_size].
C1_NormalizedFitsAndCentred ==
    (pc # "start" /\ NonFlat(glyph)) =>
        /\ norm.outcome = "ok"
        /\ LET bb == get_global_bbox(norm.path)
           IN  /\ RMax(Width(bb), Height(bb)) = target
               /\ CentreX(bb) = RHalf(target)
               /\ CentreY(bb) = RHalf(target)
        /\ InsideSquare(norm.path, target)

\* a glyph away from the origin, taller than wide, has been normalized
C1_Witness ==
    /\ pc = "normalized"
    /\ LET bb == get_global_bbox(glyph)
       IN  /\ RLt(Width(bb), Height(bb))
           /\ bb[1] # RZero
           /\ bb[3] # RZero
    /\ Len(glyph[1]) = 4

\* C3: the flip step flips Y and re-bases the outline so that the minimum Y
\* of the flipped outline is 0, whatever the outline's y_min and y_max.
C3_FlipRebasesToZero ==
    (pc # "start" /\ BPoints(glyph) # {}) =>
        get_global_bbox(FlipStep(glyph))[3] = RZero

\* C4 as stated: a degenerate outline ends in DegenerateGeometryError.
C4_RaisesDegenerateGeometryError ==
    (pc # "start" /\ ~NonFlat(glyph)) => norm.outcome = "DegenerateGeometryError"

\* C4, amended: normalizing a degenerate outline (no segment, or a flat box)
\* ends in an exception -- ValueError when the outline has no segment,
\* ZeroDivisionError when the box has zero width or zero height -- and
\* returns no path and no scale.
C4_DegenerateRaises ==
    (pc # "start" /\ ~NonFlat(glyph)) =>
        /\ pc = "raised"
        /\ norm = [outcome |-> IF BPoints(glyph) = {} THEN "ValueError"
                                                     ELSE "ZeroDivisionError"]

\* a flat but non-empty outline has been handed to normalize_glyph_path
C4_Witness ==
    /\ pc = "raised"
    /\ BPoints(glyph) # {}
    /\ Width(get_global_bbox(glyph)) # RZero
    /\ Height(get_global_bbox(glyph)) = RZero

\* C6: normalizing an already normalized outline to the same target_size
\* returns scale = 1, tx = 0 and ty = 0.
C6_RenormalizeIsIdentityTransform ==
    pc = "renormalized" =>
        /\ renorm.outcome = "ok"
        /\ renorm.scale = ROne
        /\ renorm.tx = RZero
        /\ renorm.ty = RZero

\* the first call really scaled and moved a non-square outline
C6_Witness ==
    /\ pc = "renormalized"
    /\ norm.scale # ROne
    /\ norm.tx # RZero
    /\ norm.ty # RZero
    /\ Width(get_global_bbox(glyph)) # Height(get_global_bbox(glyph))

----------------------------------------------------------------------------
(* Claims about the batch scripts, checked under SpecBatch *)

\* C5: for every glyph with a non-flat box, whatever its min_x and min_y, the
\* path shape.py writes lies inside [0, SCALE] x [0, SCALE] and has its box
\* centred at (SCALE/2, SCALE/2).
C5_ShapeInsideAndCentred ==
    (written.by = "shape.py" /\ written.outcome = "ok") =>
        /\ InsideSquare(written.path, R(SCALE))
        /\ CentreX(get_global_bbox(written.path)) = RHalf(R(SCALE))
        /\ CentreY(get_global_bbox(written.path)) = RHalf(R(SCALE))

\* the outline the strokes on file were sampled from, and how a point of it
\* is written
StrokeSource == IF strokes.by = "json_generator.py" THEN norm.path ELSE FlipStep(glyph)
StrokeEncoding(p) == IF strokes.by = "json_generator.py" THEN json_point(p) ELSE ext_point(p)
\* the segments that open a subpath: the first, and each one that does not
\* start where its predecessor ended
Openers(path) ==
    {k \in 1..Len(path) : k = 1 \/ SegEnd(path[k - 1]) # SegStart(path[k])}
\* the i-th subpath's first and last segment, counted in the path's order
OpenerAt(path, i) ==
    CHOOSE k \in Openers(path) : Cardinality({j \in Openers(path) : j < k}) = i - 1
CloserAt(path, i) ==
    IF i = Cardinality(Openers(path)) THEN Len(path) ELSE OpenerAt(path, i + 1) - 1

\* C7: every subpath gives one stroke, in the subpaths' order, of exactly
\* POINTS_PER_STROKE samples taken at t = k/(POINTS_PER_STROKE-1) for
\* k = 0 .. POINTS_PER_STROKE-1; sample 0 is the subpath's start point and the
\* last sample its end point (each as the script writes a point).
C7_StrokeSampling ==
    strokes.outcome = "ok" =>
        LET src == StrokeSource
            n   == Cardinality(Openers(src))
        IN  /\ Len(strokes.strokes) = n
            /\ \A i \in 1..n :
                 LET sub == SubSeq(src, OpenerAt(src, i), CloserAt(src, i))
                     st  == strokes.strokes[i]
                 IN  /\ Len(st) = POINTS_PER_STROKE
                     /\ st[1] = StrokeEncoding(SegStart(src[OpenerAt(src, i)]))
                     /\ st[POINTS_PER_STROKE] = StrokeEncoding(SegEnd(src[CloserAt(src, i)]))
                     /\ \A k \in 0..(POINTS_PER_STROKE - 1) :
                          st[k + 1] = StrokeEncoding(
                              PathPoint(sub, Frac(k, POINTS_PER_STROKE - 1)))

\* json_generator.py has written the strokes of a glyph of two subpaths
C7_Witness ==
    /\ strokes.outcome = "ok"
    /\ strokes.by = "json_generator.py"
    /\ Len(strokes.strokes) = 2
    /\ strokes.strokes[1][1] # strokes.strokes[1][POINTS_PER_STROKE]
    /\ strokes.strokes[1] # strokes.strokes[2]

\* C9: every coordinate written into a stroke of a <letter>_PointsInfo.json
\* file by json_generator.py or shape_ext.py lies in [0, 1].
C9_StrokeCoordinatesInUnitSquare ==
    strokes.outcome = "ok" =>
        \A i \in 1..Len(strokes.strokes) :
            \A k \in 1..Len(strokes.strokes[i]) :
                LET p == strokes.strokes[i][k]
                IN  /\ RLe(RZero, p[1]) /\ RLe(p[1], ROne)
                    /\ RLe(RZero, p[2]) /\ RLe(p[2], ROne)

\* C15: the stroke points of json_generator.py and the shape of shape.py
\* agree for the same glyph and SCALE: every sampled glyph point's JSON
\* coordinate (x_norm, y_norm), times SCALE, is the position of that point in
\* the path shape.py writes, on both axes (to the 4 decimals of the JSON).
C15_StrokesMatchShape ==
    (written.by = "shape.py" /\ written.outcome = "ok"
        /\ strokes.by = "json_generator.py" /\ strokes.outcome = "ok") =>
        LET subs == continuous_subpaths(written.path)
        IN  /\ Len(strokes.strokes) = Len(subs)
            /\ \A i \in 1..Len(subs) : \A k \in 1..POINTS_PER_STROKE :
                  LET p == PathPoint(subs[i], SampleT(k - 1))
                  IN  strokes.strokes[i][k] =
                        <<RoundTo(RDiv(p[1], R(SCALE)), 10000),
                          RoundTo(RDiv(p[2], R(SCALE)), 10000)>>

----------------------------------------------------------------------------
(* Claims about make_arrow, checked under SpecArrow *)

SqDist(p, q) ==
    RAdd(RMul(RSub(p[1], q[1]), RSub(p[1], q[1])), RMul(RSub(p[2], q[2]), RSub(p[2], q[2])))
\* the mirror image of point e about the line through p1 with direction p0 -> p1
Mirror(e, p0, p1) ==
    LET u   == Atan2(RSub(p1[2], p0[2]), RSub(p1[1], p0[1]))
        vx  == RSub(e[1], p1[1])
        vy  == RSub(e[2], p1[2])
        dot == RAdd(RMul(vx, u[1]), RMul(vy, u[2]))
    IN  <<RAdd(p1[1], RSub(RMul(R(2), RMul(dot, u[1])), vx)),
          RAdd(p1[2], RSub(RMul(R(2), RMul(dot, u[2])), vy))>>
\* each coordinate of the printed point is within 0.005 of the exact one
PrintedFrom(printed, exact) ==
    /\ RLe(RAbs(RSub(printed[1], exact[1])), Frac(1, 200))
    /\ RLe(RAbs(RSub(printed[2], exact[2])), Frac(1, 200))
\* the call of the claim's example: from (0,0) to (10,0)
ExampleCall == arrowArgs.p0 = Pt(0, 0) /\ arrowArgs.p1 = Pt(10, 0)

\* C10 as stated: the two wings returned by make_arrow both end at p1, their
\* base points are each at distance length from p1 and are mirror images of
\* each other about the line through p0 and p1; from (0,0) to (10,0) the base
\* points have equal x and opposite y.
C10_WingsExact ==
    pc = "returned" =>
        /\ arrow[1][2] = arrowArgs.p1
        /\ arrow[2][2] = arrowArgs.p1
        /\ SqDist(arrow[1][1], arrowArgs.p1) = RMul(arrowArgs.length, arrowArgs.length)
        /\ SqDist(arrow[2][1], arrowArgs.p1) = RMul(arrowArgs.length, arrowArgs.length)
        /\ arrow[2][1] = Mirror(arrow[1][1], arrowArgs.p0, arrowArgs.p1)
        /\ ExampleCall =>
              /\ arrow[1][1][1] = arrow[2][1][1]
              /\ arrow[1][1][2] = RNeg(arrow[2][1][2])

\* C10, amended: the two wings both end at p1 as printed with 2 decimals;
\* their base points are, each coordinate to within the 0.005 of that
\* printing, two points at distance length from p1 that are mirror images of
\* each other about the line through p0 and p1; from (0,0) to (10,0) the
\* printed base points have equal x and opposite y.
C10_WingsUpToPrinting ==
    pc = "returned" =>
        LET b == arrow_bases(arrowArgs.p0, arrowArgs.p1, arrowArgs.length, arrowArgs.angle_deg)
        IN  /\ arrow[1][2] = Fmt2(arrowArgs.p1)
            /\ arrow[2][2] = Fmt2(arrowArgs.p1)
            /\ PrintedFrom(arrow[1][1], b[1])
            /\ PrintedFrom(arrow[2][1], b[2])
            /\ SqDist(b[1], arrowArgs.p1) = RMul(arrowArgs.length, arrowArgs.length)
            /\ SqDist(b[2], arrowArgs.p1) = RMul(arrowArgs.length, arrowArgs.length)
            /\ b[2] = Mirror(b[1], arrowArgs.p0, arrowArgs.p1)
            /\ ExampleCall =>
                  /\ arrow[1][1][1] = arrow[2][1][1]
                  /\ arrow[1][1][2] = RNeg(arrow[2][1][2])
                  /\ arrow[1][1][2] # RZero

\* the example call with length 5 and angle 30 has returned
C10_Witness ==
    /\ pc = "returned"
    /\ ExampleCall
    /\ arrowArgs.length = R(5)
    /\ arrowArgs.angle_deg = 30
    /\ arrow[1][1] # arrow[2][1]

----------------------------------------------------------------------------
(* Claims about dotted.py and index.py *)

\* the preview point drawn for step i of subpath j
PreviewAt(j, i) == pts[(j - 1) * (PreviewSteps + 1) + i + 1]

\* C2: the export mapping (c - offset - tx)/scale, applied with the transform
\* tuple of the main block, is the inverse of the mapping that draws the
\* preview: the canvas point drawn for a point q of the flipped outline is
\* taken back to q, on both axes.
C2_ExportInvertsPreview ==
    pc \in {"ui", "saved"} =>
        LET subs == continuous_subpaths(FlipStep(glyph))
        IN  \A j \in 1..Len(subs) : \A i \in 0..PreviewSteps :
                canvas_to_glyph(PreviewAt(j, i), transform)
                    = PathPoint(subs[j], Frac(i, PreviewSteps))

\* the place of the k-th marker's circle among the exported elements: one
\* element per earlier marker, and one more per earlier marker with a digit
CircleAt(k) == k + Cardinality({i \in 1..(k - 1) : font[i].inCmap})

\* C8: for every marker the digit outline is normalized on its own to
\* target_size = 2 * r_font * DIGIT_INSIDE_SCALE and translated so that the
\* centre of its box lands on (x0, y0), the centre of the marker's circle,
\* whatever the digit glyph's size and position.
C8_DigitCentredOnMarker ==
    (pc = "saved" /\ font # <<>>) =>
        \A k \in 1..Len(markers) :
            LET x0 == RDiv(RSub(RSub(markers[k][1], transform[4]), transform[2]), transform[1])
                y0 == RDiv(RSub(RSub(markers[k][2], transform[4]), transform[3]), transform[1])
                r  == RDiv(R(MARKER_RADIUS), transform[1])
                c  == exported[CircleAt(k)]
            IN  /\ c.kind = "circle"
                /\ c.right = Fmt3(RAdd(x0, r)) /\ c.left = Fmt3(RSub(x0, r))
                /\ c.y = Fmt3(y0)
                /\ font[k].inCmap =>
                     LET d  == exported[CircleAt(k) + 1]
                         bb == get_global_bbox(d.path)
                     IN  /\ d.kind = "digit"
                         /\ CentreX(bb) = x0
                         /\ CentreY(bb) = y0
                         /\ RMax(Width(bb), Height(bb)) = RMul(RMul(R(2), r), Frac(3, 5))

\* three markers have been exported, with digits of different sizes
C8_Witness ==
    /\ pc = "saved"
    /\ font # <<>>
    /\ Len(markers) = 3
    /\ \A k \in 1..3 : font[k].inCmap
    /\ markers[1] # markers[2]
    /\ transform[1] # ROne
    /\ Len(exported) = 6

\* path is outline flipped, scaled by one positive factor on both axes and moved
SameShape(path, outline) ==
    LET f  == FlipStep(outline)
        fb == get_global_bbox(f)
        pb == get_global_bbox(path)
        sc == RDiv(RMax(Width(pb), Height(pb)), RMax(Width(fb), Height(fb)))
    IN  /\ RLt(RZero, sc)
        /\ path = Translated(Scaled(f, sc, sc), RSub(pb[1], RMul(sc, fb[1])),
                                                RSub(pb[3], RMul(sc, fb[3])))

\* C16: "s" exports for the k-th marker, in click order, one circle centred
\* on that marker (as printed with 3 decimals) followed by the outline of the
\* digit k, so the numbering is 1 .. n without gaps or repeats; when the font
\* has no glyph for digit k the circle is still there and only the digit is
\* left out.
C16_MarkersNumberedInOrder ==
    (pc = "saved" /\ font # <<>>) =>
        /\ Len(exported) =
              Len(markers) + Cardinality({k \in 1..Len(markers) : font[k].inCmap})
        /\ \A k \in 1..Len(markers) :
              LET p == canvas_to_glyph(markers[k], transform)
                  c == exported[CircleAt(k)]
              IN  /\ c.kind = "circle"
                  /\ RLe(RAbs(RSub(RHalf(RAdd(c.left, c.right)), p[1])), Frac(1, 2000))
                  /\ c.y = Fmt3(p[2])
                  /\ font[k].inCmap =>
                        /\ exported[CircleAt(k) + 1].kind = "digit"
                        /\ SameShape(exported[CircleAt(k) + 1].path, font[k].outline)
                  /\ (~font[k].inCmap /\ k < Len(markers)) =>
                        exported[CircleAt(k) + 1].kind = "circle"

\* four markers have been exported with a font that has no glyph for "3"
C16_Witness ==
    /\ pc = "saved"
    /\ font # <<>>
    /\ Len(markers) = 4
    /\ ~font[3].inCmap
    /\ markers[3] # markers[4]
    /\ Len(exported) = 7

----------------------------------------------------------------------------
(* Claims about the events of both tools, checked under SpecLimits *)

\* C11: after any sequence of click, "u" and "t" events dotted.py holds at
\* most MAX_SEGMENTS segments and index.py at most MAX_MARKERS markers; a
\* click at the maximum leaves the state unchanged, and "u" on an empty state
\* leaves it unchanged.
C11_NeverMoreThanMaximum ==
    /\ Len(segments) <= MAX_SEGMENTS
    /\ Len(markers) <= MAX_MARKERS
    /\ Len(segments) = MAX_SEGMENTS =>
          \A evt \in Clicks : on_click(segments, current, evt) = <<segments, current>>
    /\ Len(markers) = MAX_MARKERS =>
          \A evt \in Clicks : index_on_click(markers, evt) = markers
    /\ (segments = <<>> /\ current = <<>>) =>
          on_key_u(segments, current) = <<segments, current>>
    /\ markers = <<>> => index_on_key_u(markers) = markers

\* dotted.py holds MAX_SEGMENTS segments, and was clicked on after that
C11_Witness ==
    /\ pc = "ui"
    /\ font = <<>>
    /\ Len(segments) = MAX_SEGMENTS
    /\ CountPoints(segments) = MaxPoints
    /\ current = <<>>

----------------------------------------------------------------------------
(* Claims about the events of dotted.py, checked under SpecDotted *)

Front(q) == SubSeq(q, 1, Len(q) - 1)

\* C12: "u" takes the last point off current and leaves segments alone when
\* current is not empty; when current is empty it drops the whole last
\* finalized segment and current stays empty; and "u" right after an
\* accepted click gives back the (segments, current) of before the click.
C12_UndoLastPointOrSegment ==
    [][ /\ OnKeyU =>
             /\ current # <<>> => (current' = Front(current) /\ segments' = segments)
             /\ (current = <<>> /\ segments # <<>>) =>
                    (segments' = Front(segments) /\ current' = <<>>)
        /\ (OnClick /\ Len(segments) < MAX_SEGMENTS) =>
             /\ Len(current') = Len(current) + 1
             /\ on_key_u(segments', current') = <<segments, current>>
      ]_vars

\* a point has been clicked after a segment was finalized
C12_Witness ==
    /\ pc = "ui"
    /\ Len(segments) = 1
    /\ Len(current) = 1
    /\ segments[1][2] # current[1]

\* the side of p1 a point lies on, along the direction from p0 to p1:
\* negative behind p1, towards p0
Along(e, p0, p1) ==
    RAdd(RMul(RSub(e[1], p1[1]), RSub(p1[1], p0[1])),
         RMul(RSub(e[2], p1[2]), RSub(p1[2], p0[2])))

\* C13: "s" exports exactly 3 elements per finalized segment, in the order
\* the segments were finalized: the polyline through all the segment's points
\* in click order, then the two arrow wings, which end at the segment's last
\* point and lie back towards its second-to-last point; every finalized
\* segment has at least 2 points.
C13_ThreeElementsPerSegment ==
    (pc = "saved" /\ font = <<>>) =>
        /\ Len(exported) = 3 * Len(segments)
        /\ \A k \in 1..Len(segments) :
              LET seg  == segments[k]
                  n    == Len(seg)
                  line == exported[3 * k - 2]
                  p0   == canvas_to_glyph(seg[n - 1], transform)
                  p1   == canvas_to_glyph(seg[n], transform)
                  b    == arrow_bases(p0, p1, RMul(RDiv(R(MARKER_RADIUS), transform[1]), Frac(4, 5)), 25)
              IN  /\ n >= 2
                  /\ Len(line) = n
                  /\ \A i \in 1..n : line[i] = Fmt2(canvas_to_glyph(seg[i], transform))
                  /\ \A w \in {3 * k - 1, 3 * k} :
                        /\ Len(exported[w]) = 2
                        /\ exported[w][2] = line[n]
                  /\ PrintedFrom(exported[3 * k - 1][1], b[1])
                  /\ PrintedFrom(exported[3 * k][1], b[2])
                  /\ p0 # p1 => (RLt(Along(b[1], p0, p1), RZero) /\ RLt(Along(b[2], p0, p1), RZero))

\* two different segments have been exported, the first drawn between two
\* different pixels
C13_Witness ==
    /\ pc = "saved"
    /\ Len(segments) = 2
    /\ segments[1] # segments[2]
    /\ segments[1][1] # segments[1][2]
    /\ Len(exported) = 6

\* C17: "s" exports the finalized segments only: the exported elements are
\* three per finalized segment, each polyline has the points of its segment,
\* so the points of current are in none of them; the letter's block in
\* dotted.dart is rewritten with what was exported, with an empty body when
\* no segment was finalized.
C17_OnlyFinalizedSegmentsSaved ==
    (pc = "saved" /\ font = <<>>) =>
        LET mine == BlocksNamed(dottedDart, <<"dottedLetter", letter>>)
        IN  /\ Len(exported) = 3 * Len(segments)
            /\ \A k \in 1..Len(segments) :
                  exported[3 * k - 2] =
                      [i \in 1..Len(segments[k]) |->
                          Fmt2(canvas_to_glyph(segments[k][i], transform))]
            /\ dottedDart.exists
            /\ Len(mine) = 1
            /\ mine[1].body = exported
            /\ dottedDart.blocks[Len(dottedDart.blocks)] = mine[1]
            /\ segments = <<>> => mine[1].body = <<>>

\* "s" was pressed with two points clicked and no segment finalized, on a
\* letter that had a block in the file
C17_Witness ==
    /\ pc = "saved"
    /\ font = <<>>
    /\ segments = <<>>
    /\ Len(current) = 2
    /\ Len(dottedDart.blocks) = 2
    /\ dottedDart.blocks[2] = [name |-> <<"dottedLetter", letter>>, body |-> <<>>]

----------------------------------------------------------------------------
(* Claims about the output files, checked under SpecSave *)

\* a save of character l with the given body turned file old into file new
\* as it should: one block of l, holding the body, and every other
\* character's blocks as they were
Replaced(prefix, l, body, old, new) ==
    /\ new.exists
    /\ Len(BlocksNamed(new, <<prefix, l>>)) = 1
    /\ BlocksNamed(new, <<prefix, l>>)[1].body = body
    /\ \A c \in Letters \ {l} :
          BlocksNamed(new, <<prefix, c>>) = BlocksNamed(old, <<prefix, c>>)

\* C14: saving a letter replaces that letter's previous block: after every
\* call of append_trace_to_dart / append_to_dart the file holds exactly one
\* block of the saved letter, with the content just saved, and the blocks of
\* all other letters are as they were.
C14_SaveReplacesBlock ==
    [][ /\ SaveTrace => Replaced("dottedLetter", letter', exported', dottedDart, dottedDart')
        /\ SaveIndex => Replaced("indexLetter", letter', exported', indexDart, indexDart')
      ]_vars

====
